---- MODULE Spec2Model ----
(***************************************************************************)
(* A model of mdgo/util/dict_utils.py: the residue-range parsers            *)
(* (res_dict_from_datafile, res_dict_from_lammpsdata), mass_to_name,        *)
(* res_dict_from_select_dict, select_dict_from_resname and the center       *)
(* extractors.  Python dicts are sequences of <<key, value>> pairs kept in  *)
(* insertion order; strings are TLA+ strings built by concatenation; text   *)
(* that the code tokenises is a sequence of one-character strings.          *)
(***************************************************************************)
EXTENDS Integers, Sequences, FiniteSets, TLC

(* ------------------------------ bounds -------------------------------- *)
MaxGroups == 2
MaxNum == 2
MaxMasses == 3
MaxUAtoms == 3
MaxIonAtoms == 3
MaxFrags == 3
MaxResidues == 2
MaxEntries == 2
MaxRuns == 2

VARIABLES
    groups,      \* parser input: the groups (name, num, frag, shown)
    has_frags,   \* parser input: hasattr(lammps_data, "frags")
    lines,       \* parser input: f.readlines() of the data file
    df_pc,       \* res_dict_from_datafile: position / outcome
    elyte_info,  \* res_dict_from_datafile: the tokens of lines[1]
    it,          \* res_dict_from_datafile: tokens consumed from the iterator
    idx,         \* res_dict_from_datafile: the index cursor
    res_dict,    \* res_dict_from_datafile: the dictionary being built
    ld_pc,       \* res_dict_from_lammpsdata: position / outcome
    ld_i,        \* res_dict_from_lammpsdata: groups consumed from the zip
    ld_idx,      \* res_dict_from_lammpsdata: the index cursor
    ld_res_dict, \* res_dict_from_lammpsdata: the dictionary being built
    masses,      \* mass_to_name input: the masses, in units of 0.01
    names,       \* mass_to_name: the list of names being built
    m_i,         \* mass_to_name: masses consumed by the outer loop
    m_pc,        \* mass_to_name: position / outcome
    u_atoms,     \* res_dict_from_select_dict input: the universe's atoms (resid, type)
    select_dict, \* res_dict_from_select_dict input: the SelectDict
    rs_i,        \* res_dict_from_select_dict: entries consumed by the loop
    saved_select, \* res_dict_from_select_dict: the residue groups kept so far
    rs_res_dict, \* res_dict_from_select_dict: the dictionary being built
    rs_pc,       \* res_dict_from_select_dict: position / outcome
    positive,    \* extract_atom_from_ion input: the sign of the ion
    ion,         \* extract_atom_from_ion input: the ion's atoms (name, type, charge)
    number,      \* extract_atom_from_ion input: the serial number
    ion_dict,    \* extract_atom_from_ion: the select_dict it writes to
    ion_pc,      \* extract_atom_from_ion: position / outcome
    c_resnames,  \* select_dict_from_resname: np.unique(u.residues.resnames)
    c_i,         \* select_dict_from_resname: resnames consumed by the loop
    c_residue,   \* select_dict_from_resname: the residue the last pass inspected
    c_select_dict, \* select_dict_from_resname: the dictionary being built
    c_pc,        \* select_dict_from_resname: position / outcome
    a_residues,  \* assign_resname input: the universe's residues (their fragments)
    a_names0,    \* assign_resname input: the resnames at the call (<<>>: no attribute)
    a_res_dict,  \* assign_resname input: the res_dict
    a_names,     \* assign_resname: u.residues.resnames
    a_i,         \* assign_resname: entries consumed by the loop
    a_pc,        \* assign_resname: position / outcome
    a_select_dict, \* the result of the last select_dict_from_resname(u) after it
    a_runs       \* the number of select_dict_from_resname(u) calls after it

parser_vars == <<groups, has_frags, lines, df_pc, elyte_info, it, idx, res_dict,
                 ld_pc, ld_i, ld_idx, ld_res_dict>>

mass_vars == <<masses, names, m_i, m_pc>>

dedup_vars == <<u_atoms, select_dict, rs_i, saved_select, rs_res_dict, rs_pc>>

ion_vars == <<positive, ion, number, ion_dict, ion_pc>>

cls_vars == <<c_resnames, c_i, c_residue, c_select_dict, c_pc>>

asg_vars == <<a_residues, a_names0, a_res_dict, a_names, a_i, a_pc, a_select_dict, a_runs>>

vars == <<parser_vars, mass_vars, dedup_vars, ion_vars, cls_vars, asg_vars>>

(* --------------------------- python helpers --------------------------- *)
Min(a, b) == IF a < b THEN a ELSE b

Range(s) == {s[i] : i \in 1..Len(s)}

\* A dict: <<key, value>> pairs in insertion order, keys unique.
DictKeys(d) == {d[i][1] : i \in 1..Len(d)}

DictHas(d, k) == k \in DictKeys(d)

DictGet(d, k) == d[CHOOSE i \in 1..Len(d) : d[i][1] = k][2]

\* d[k] = v: replaces the value in place, or appends a new pair.
DictPut(d, k, v) ==
    IF DictHas(d, k)
    THEN [i \in 1..Len(d) |-> IF d[i][1] = k THEN <<k, v>> ELSE d[i]]
    ELSE Append(d, <<k, v>>)

\* d.pop(k) for a key that is present.
DictPop(d, k) == SelectSeq(d, LAMBDA p : p[1] # k)

\* d1 == d2 on dicts: same keys, same values, whatever the order.
DictEq(d1, d2) == Range(d1) = Range(d2)

\* The number of entries of d whose key is k.
DictCount(d, k) == Cardinality({i \in 1..Len(d) : d[i][1] = k})

DigitChars == <<"0", "1", "2", "3", "4", "5", "6", "7", "8", "9">>

ascii_lowercase ==
    <<"a", "b", "c", "d", "e", "f", "g", "h", "i", "j", "k", "l", "m",
      "n", "o", "p", "q", "r", "s", "t", "u", "v", "w", "x", "y", "z">>

ascii_uppercase ==
    <<"A", "B", "C", "D", "E", "F", "G", "H", "I", "J", "K", "L", "M",
      "N", "O", "P", "Q", "R", "S", "T", "U", "V", "W", "X", "Y", "Z">>

\* The characters the regular expression class \w matches (ASCII).
WordChars == Range(DigitChars) \cup Range(ascii_lowercase) \cup Range(ascii_uppercase) \cup {"_"}

\* "".join(cs): the string of a sequence of characters.
RECURSIVE Join(_)
Join(cs) == IF cs = <<>> THEN "" ELSE cs[1] \o Join(Tail(cs))

\* str(n) for n >= 0, as characters and as a string.
RECURSIVE StrChars(_)
StrChars(n) ==
    IF n < 10 THEN <<DigitChars[n + 1]>>
    ELSE Append(StrChars(n \div 10), DigitChars[(n % 10) + 1])

Str(n) == Join(StrChars(n))

\* tok.isnumeric() on a token of ASCII characters.
IsNumeric(tok) == tok # <<>> /\ \A i \in 1..Len(tok) : tok[i] \in Range(DigitChars)

DigitVal(c) == (CHOOSE i \in 1..10 : DigitChars[i] = c) - 1

\* int(tok) for a token of digits.
RECURSIVE IntOf(_)
IntOf(tok) ==
    IF tok = <<>> THEN 0
    ELSE 10 * IntOf(SubSeq(tok, 1, Len(tok) - 1)) + DigitVal(tok[Len(tok)])

\* re.findall(r"\w+", line): the maximal runs of word characters, in order.
RECURSIVE FindallFrom(_, _, _, _)
FindallFrom(line, i, cur, acc) ==
    IF i > Len(line)
    THEN IF cur = <<>> THEN acc ELSE Append(acc, cur)
    ELSE IF line[i] \in WordChars
         THEN FindallFrom(line, i + 1, Append(cur, line[i]), acc)
         ELSE FindallFrom(line, i + 1, <<>>, IF cur = <<>> THEN acc ELSE Append(acc, cur))

FindallWord(line) == FindallFrom(line, 1, <<>>, <<>>)

\* string.ascii_lowercase[0:frag] for frag >= 0: at most 26 letters.
LowercaseSlice(frag) == SubSeq(ascii_lowercase, 1, Min(frag, Len(ascii_lowercase)))

(* ------------------------ the data file's text ------------------------ *)
MarkerLine ==
    <<"G", "e", "n", "e", "r", "a", "t", "e", "d", " ", "b", "y", " ",
      "p", "y", "m", "a", "t", "g", "e", "n", ".", "i", "o", ".",
      "l", "a", "m", "m", "p", "s", ".", "d", "a", "t", "a", ".",
      "L", "a", "m", "m", "p", "s", "D", "a", "t", "a", "\n">>

\* The marker without its line end (a one-line file with no final newline).
MarkerNoNewline == SubSeq(MarkerLine, 1, Len(MarkerLine) - 1)

OtherLine == <<"L", "A", "M", "M", "P", "S", "\n">>

\* One group of the comment line: "<num> <name>" or "<num> <frag> <name>".
GroupText(g) ==
    StrChars(g.num) \o <<" ">>
    \o (IF g.shown THEN StrChars(g.frag) \o <<" ">> ELSE <<>>)
    \o g.name

RECURSIVE GroupsText(_)
GroupsText(gs) ==
    IF gs = <<>> THEN <<>>
    ELSE IF Len(gs) = 1 THEN GroupText(gs[1])
    ELSE GroupText(gs[1]) \o <<" ", "+", " ">> \o GroupsText(Tail(gs))

\* The comment line that encodes the groups.
HeaderLine(gs) == <<"#", " ">> \o GroupsText(gs) \o <<"\n">>

GroupNames == {<<"E", "C">>, <<"L", "i">>}

\* (frag, shown): the multiplicities tried, and whether the header writes them.
FragChoices == {<<1, FALSE>>, <<1, TRUE>>, <<2, TRUE>>, <<27, TRUE>>}

GroupSet ==
    {[name |-> n, num |-> c, frag |-> f[1], shown |-> f[2]] :
        n \in GroupNames, c \in 0..MaxNum, f \in FragChoices}

RECURSIVE SeqsUpTo(_, _)
SeqsUpTo(S, n) ==
    IF n = 0 THEN {<<>>}
    ELSE LET shorter == SeqsUpTo(S, n - 1)
         IN shorter \cup {Append(s, x) : s \in {t \in shorter : Len(t) = n - 1}, x \in S}

\* The file whose preamble and comment line encode gs.
WellFormedFile(gs) == <<MarkerLine, HeaderLine(gs)>>

\* Files that depart from it: too short, a wrong first line, a second line
\* without '#', and comment lines whose tokens do not pair up.
OtherFiles(gs) ==
    { <<>>,
      <<MarkerLine>>,
      <<OtherLine>>,
      <<OtherLine, HeaderLine(gs)>>,
      <<MarkerNoNewline, HeaderLine(gs)>>,
      <<MarkerLine, Tail(HeaderLine(gs))>>,
      <<MarkerLine, HeaderLine(gs) \o <<"7", "\n">> >>,
      <<MarkerLine, HeaderLine(gs) \o <<"7", " ", "8", "\n">> >>,
      <<MarkerLine, <<"#", " ", "x", " ">> \o Tail(HeaderLine(gs))>>,
      <<MarkerLine, <<"#", " ", "x", " ", "2", " ">> \o Tail(HeaderLine(gs))>> }

(* ---------------------- res_dict_from_datafile ------------------------ *)
ResidRange(start, end) == "resid " \o Str(start) \o "-" \o Str(end - 1)

SameMass(k) == "same mass as resid " \o Str(k)

\* for i, n in enumerate(names): res_dict[n] = "same mass as resid " + str(start + i)
RECURSIVE PutBranched(_, _, _, _, _)
PutBranched(d, name, start, letters, i) ==
    IF i >= Len(letters) THEN d
    ELSE PutBranched(DictPut(d, name \o letters[i + 1], SameMass(start + i)),
                     name, start, letters, i + 1)

\* The branched arm of either entry point.
BranchedDict(d, name, start, frag) == PutBranched(d, name, start, LowercaseSlice(frag), 0)

BranchedIdx(cursor, num, frag) == cursor + num * frag

\* The non-branched arm of either entry point.
PlainDict(d, name, start, num) == DictPut(d, name, ResidRange(start, start + num))

\* The cursor advanced one too far.
PlainIdxOffByOne(cursor, num) == cursor + num + 1

PlainIdx(cursor, num) == cursor + num

\* lines[0] == "Generated by ...\n" and lines[1].startswith("#"); a missing
\* line is an IndexError, and "and" does not evaluate lines[1] when lines[0] differs.
PreambleIndexError ==
    IF Len(lines) = 0 THEN TRUE ELSE lines[1] = MarkerLine /\ Len(lines) = 1

PreambleOk ==
    /\ Len(lines) >= 2
    /\ lines[1] = MarkerLine
    /\ lines[2] # <<>>
    /\ lines[2][1] = "#"

DfFrame ==
    UNCHANGED <<groups, has_frags, lines, ld_pc, ld_i, ld_idx, ld_res_dict,
                mass_vars, dedup_vars, ion_vars, cls_vars, asg_vars>>

DfOpen ==
    /\ df_pc = "open"
    /\ PreambleOk
    /\ elyte_info' = FindallWord(lines[2])
    /\ df_pc' = "loop"
    /\ UNCHANGED <<it, idx, res_dict>>
    /\ DfFrame

DfOpenIndexError ==
    /\ df_pc = "open"
    /\ PreambleIndexError
    /\ df_pc' = "IndexError"
    /\ UNCHANGED <<elyte_info, it, idx, res_dict>>
    /\ DfFrame

DfOpenValueError ==
    /\ df_pc = "open"
    /\ ~PreambleIndexError
    /\ ~PreambleOk
    /\ df_pc' = "ValueError"
    /\ UNCHANGED <<elyte_info, it, idx, res_dict>>
    /\ DfFrame

\* The tokens the next iteration reads.
DfNum == elyte_info[it + 1]
DfName == elyte_info[it + 2]
DfIsBranched == Len(elyte_info) >= it + 2 /\ IsNumeric(DfName)

\* for num in it: the iterator is exhausted, the function returns res_dict.
DfReturn ==
    /\ df_pc = "loop"
    /\ it = Len(elyte_info)
    /\ df_pc' = "returned"
    /\ UNCHANGED <<elyte_info, it, idx, res_dict>>
    /\ DfFrame

\* next(it) on the exhausted iterator, for the label or for the real label.
DfStopIteration ==
    /\ df_pc = "loop"
    /\ it < Len(elyte_info)
    /\ IF Len(elyte_info) < it + 2 THEN TRUE
       ELSE DfIsBranched /\ Len(elyte_info) < it + 3
    /\ df_pc' = "StopIteration"
    /\ UNCHANGED <<elyte_info, it, idx, res_dict>>
    /\ DfFrame

\* int(num) on a count token that is no number.
DfIntValueError ==
    /\ df_pc = "loop"
    /\ Len(elyte_info) >= it + 2
    /\ DfIsBranched => Len(elyte_info) >= it + 3
    /\ ~IsNumeric(DfNum)
    /\ df_pc' = "IntValueError"
    /\ UNCHANGED <<elyte_info, it, idx, res_dict>>
    /\ DfFrame

DfBranched ==
    /\ df_pc = "loop"
    /\ Len(elyte_info) >= it + 3
    /\ DfIsBranched
    /\ IsNumeric(DfNum)
    /\ LET frag == IntOf(DfName)
           name == Join(elyte_info[it + 3])
       IN /\ res_dict' = BranchedDict(res_dict, name, idx, frag)
          /\ idx' = BranchedIdx(idx, IntOf(DfNum), frag)
    /\ it' = it + 3
    /\ UNCHANGED <<df_pc, elyte_info>>
    /\ DfFrame

DfPlain ==
    /\ df_pc = "loop"
    /\ Len(elyte_info) >= it + 2
    /\ ~DfIsBranched
    /\ IsNumeric(DfNum)
    /\ res_dict' = PlainDict(res_dict, Join(DfName), idx, IntOf(DfNum))
    /\ idx' = PlainIdx(idx, IntOf(DfNum))
    /\ it' = it + 2
    /\ UNCHANGED <<df_pc, elyte_info>>
    /\ DfFrame

DfDone == df_pc \in {"returned", "ValueError", "IndexError", "StopIteration", "IntValueError"}

(* --------------------- res_dict_from_lammpsdata ----------------------- *)
LdFrame ==
    UNCHANGED <<groups, has_frags, lines, df_pc, elyte_info, it, idx, res_dict,
                mass_vars, dedup_vars, ion_vars, cls_vars, asg_vars>>

\* The group the zip yields next.
LdGroup == groups[ld_i + 1]

LdIsBranched == has_frags /\ LdGroup.frag # 1

LdPlain ==
    /\ DfDone
    /\ ld_pc = "loop"
    /\ ld_i < Len(groups)
    /\ ~LdIsBranched
    /\ ld_res_dict' = PlainDict(ld_res_dict, Join(LdGroup.name), ld_idx, LdGroup.num)
    /\ ld_idx' = PlainIdx(ld_idx, LdGroup.num)
    /\ ld_i' = ld_i + 1
    /\ UNCHANGED ld_pc
    /\ LdFrame

LdBranched ==
    /\ DfDone
    /\ ld_pc = "loop"
    /\ ld_i < Len(groups)
    /\ LdIsBranched
    /\ ld_res_dict' = BranchedDict(ld_res_dict, Join(LdGroup.name), ld_idx, LdGroup.frag)
    /\ ld_idx' = BranchedIdx(ld_idx, LdGroup.num, LdGroup.frag)
    /\ ld_i' = ld_i + 1
    /\ UNCHANGED ld_pc
    /\ LdFrame

LdReturn ==
    /\ DfDone
    /\ ld_pc = "loop"
    /\ ld_i = Len(groups)
    /\ ld_pc' = "returned"
    /\ UNCHANGED <<ld_i, ld_idx, ld_res_dict>>
    /\ LdFrame

(* ------------------------ the parser, as a run ------------------------ *)
\* The parser's variables while another function is the one applied.
ParserIdle ==
    /\ groups = <<>>
    /\ has_frags = FALSE
    /\ lines = <<>>
    /\ df_pc = "idle"
    /\ elyte_info = <<>>
    /\ it = 0
    /\ idx = 1
    /\ res_dict = <<>>
    /\ ld_pc = "idle"
    /\ ld_i = 0
    /\ ld_idx = 1
    /\ ld_res_dict = <<>>

\* mass_to_name's variables while another function is the one applied.
MassIdle ==
    /\ masses = <<>>
    /\ names = <<>>
    /\ m_i = 0
    /\ m_pc = "idle"

\* res_dict_from_select_dict's variables while another function is applied.
DedupIdle ==
    /\ u_atoms = <<>>
    /\ select_dict = <<>>
    /\ rs_i = 0
    /\ saved_select = <<>>
    /\ rs_res_dict = <<>>
    /\ rs_pc = "idle"

\* extract_atom_from_ion's variables while another function is applied.
IonIdle ==
    /\ positive = TRUE
    /\ ion = <<>>
    /\ number = 0
    /\ ion_dict = <<>>
    /\ ion_pc = "idle"

\* select_dict_from_resname's variables while another function is applied.
ClassifyIdle ==
    /\ c_resnames = <<>>
    /\ c_i = 0
    /\ c_residue = <<>>
    /\ c_select_dict = <<>>
    /\ c_pc = "idle"

\* assign_resname's variables while another function is applied.
AssignIdle ==
    /\ a_residues = <<>>
    /\ a_names0 = <<>>
    /\ a_res_dict = <<>>
    /\ a_names = <<>>
    /\ a_i = 0
    /\ a_pc = "idle"
    /\ a_select_dict = <<>>
    /\ a_runs = 0

\* Both entry points are applied to the same groups: the data file first,
\* then the CombinedData arrays.
ParserInit ==
    /\ groups \in SeqsUpTo(GroupSet, MaxGroups)
    /\ has_frags \in BOOLEAN
    /\ has_frags = FALSE => \A i \in 1..Len(groups) : groups[i].frag = 1
    /\ lines \in {WellFormedFile(groups)}
                 \cup (IF Len(groups) <= 1 /\ has_frags THEN OtherFiles(groups) ELSE {})
    /\ df_pc = "open"
    /\ elyte_info = <<>>
    /\ it = 0
    /\ idx = 1
    /\ res_dict = <<>>
    /\ ld_pc = "loop"
    /\ ld_i = 0
    /\ ld_idx = 1
    /\ ld_res_dict = <<>>
    /\ MassIdle
    /\ DedupIdle
    /\ IonIdle
    /\ ClassifyIdle
    /\ AssignIdle

ParserNext ==
    \/ DfOpen
    \/ DfOpenIndexError
    \/ DfOpenValueError
    \/ DfReturn
    \/ DfStopIteration
    \/ DfIntValueError
    \/ DfBranched
    \/ DfPlain
    \/ LdPlain
    \/ LdBranched
    \/ LdReturn

SpecParser == ParserInit /\ [][ParserNext]_vars

(* ======================= claims on the parser ========================= *)
\* The file is the well-formed encoding of the groups, and both entry
\* points have returned.
BothReturned ==
    /\ lines = WellFormedFile(groups)
    /\ df_pc = "returned"
    /\ ld_pc = "returned"

\* C1: for every sequence of groups, res_dict_from_datafile on the
\* well-formed header that encodes it and res_dict_from_lammpsdata on the
\* equivalent arrays return the same ResDict content, also when a
\* multiplicity of 1 is written in the header.
C1_EntryPointsAgree == BothReturned => DictEq(res_dict, ld_res_dict)

\* The equivalence as the code has it: it holds whenever no multiplicity of
\* 1 is written in the header.
EntryPointsAgreeUnlessOneShown ==
    (BothReturned /\ \A i \in 1..Len(groups) : ~(groups[i].frag = 1 /\ groups[i].shown))
        => DictEq(res_dict, ld_res_dict)

\* A step of res_dict_from_datafile that consumed a (count, label) pair.
DfPlainStep == df_pc = "loop" /\ it' = it + 2

\* A step of res_dict_from_lammpsdata over a group it treats as non-branched.
LdPlainStep == ld_i' = ld_i + 1 /\ ~(has_frags /\ groups[ld_i + 1].frag # 1)

\* The entry label -> "resid <start>-<start + count - 1>" is in d.
HasRange(d, label, start, count) ==
    <<label, "resid " \o Str(start) \o "-" \o Str(start + count - 1)>> \in Range(d)

\* C2: the cursor starts at 1 in both entry points; a non-branched group
\* (count, label) records label -> "resid <start>-<end>" with start the
\* cursor before the group and end = start + count - 1, and advances the
\* cursor by exactly count, so successive ranges are contiguous and disjoint.
C2_PlainRanges ==
    /\ idx = 1
    /\ ld_idx = 1
    /\ [][ /\ DfPlainStep =>
                /\ HasRange(res_dict', Join(elyte_info[it + 2]), idx, IntOf(elyte_info[it + 1]))
                /\ idx' = idx + IntOf(elyte_info[it + 1])
           /\ LdPlainStep =>
                /\ HasRange(ld_res_dict', Join(groups[ld_i + 1].name), ld_idx, groups[ld_i + 1].num)
                /\ ld_idx' = ld_idx + groups[ld_i + 1].num ]_vars

\* Two non-branched groups of two residues each went through both entry
\* points: the second range starts where the first ended.
C2_Witness ==
    /\ BothReturned
    /\ res_dict = << <<"EC", "resid 1-2">>, <<"Li", "resid 3-4">> >>
    /\ ld_res_dict = res_dict
    /\ idx = 5
    /\ ld_idx = 5

\* A step of res_dict_from_datafile that consumed a (count, frag, label) triple.
DfBranchedStep == df_pc = "loop" /\ it' = it + 3

\* A step of res_dict_from_lammpsdata over a group it treats as branched.
LdBranchedStep == ld_i' = ld_i + 1 /\ has_frags /\ groups[ld_i + 1].frag # 1

\* d, grown from d0, holds exactly frag sub-entries label+'a', label+'b', ...,
\* the i-th mapped to "same mass as resid <cursor + i>".
HasSubEntries(d0, d, label, cursor, frag) ==
    /\ \A i \in 0..(frag - 1) :
          /\ i < Len(ascii_lowercase)
          /\ <<label \o ascii_lowercase[i + 1], "same mass as resid " \o Str(cursor + i)>>
                \in Range(d)
    /\ d0 = <<>> => Len(d) = frag

\* C3: a branched group (count, frag, label) records exactly frag
\* sub-entries label+'a', label+'b', ... in order, the i-th mapped to
\* "same mass as resid <cursor + i>", and advances the cursor by count * frag.
C3_BranchedEntries ==
    [][ /\ DfBranchedStep =>
             /\ HasSubEntries(res_dict, res_dict', Join(elyte_info[it + 3]), idx,
                              IntOf(elyte_info[it + 2]))
             /\ idx' = idx + IntOf(elyte_info[it + 1]) * IntOf(elyte_info[it + 2])
        /\ LdBranchedStep =>
             /\ HasSubEntries(ld_res_dict, ld_res_dict', Join(groups[ld_i + 1].name), ld_idx,
                              groups[ld_i + 1].frag)
             /\ ld_idx' = ld_idx + groups[ld_i + 1].num * groups[ld_i + 1].frag ]_vars

\* The same statement for multiplicities the alphabet can name.
BranchedEntriesUpTo26 ==
    [][ /\ (DfBranchedStep /\ IntOf(elyte_info[it + 2]) <= 26) =>
             /\ HasSubEntries(res_dict, res_dict', Join(elyte_info[it + 3]), idx,
                              IntOf(elyte_info[it + 2]))
             /\ idx' = idx + IntOf(elyte_info[it + 1]) * IntOf(elyte_info[it + 2])
        /\ (LdBranchedStep /\ groups[ld_i + 1].frag <= 26) =>
             /\ HasSubEntries(ld_res_dict, ld_res_dict', Join(groups[ld_i + 1].name), ld_idx,
                              groups[ld_i + 1].frag)
             /\ ld_idx' = ld_idx + groups[ld_i + 1].num * groups[ld_i + 1].frag ]_vars

\* The first two lines are not the generator marker followed by a line that
\* begins with '#' (a file with fewer than two lines included).
MalformedPreamble ==
    IF Len(lines) < 2 THEN TRUE
    ELSE \/ lines[1] # MarkerLine
         \/ (IF lines[2] = <<>> THEN TRUE ELSE lines[2][1] # "#")

\* C6: on a malformed preamble (fewer than two lines included)
\* res_dict_from_datafile fails with the format error, ValueError, and with
\* no other error kind, and returns no ResDict.
C6_FormatError == (MalformedPreamble /\ df_pc # "open") => df_pc = "ValueError"

\* What the code does there: ValueError, or IndexError on a missing line.
FormatErrorOrIndexError ==
    (MalformedPreamble /\ df_pc # "open") => df_pc \in {"ValueError", "IndexError"}

(* --------------------------- mass_to_name ----------------------------- *)
\* abs_tol=0.1 of math.isclose, in units of 0.01.
MassTol == 10

\* MM_of_Elements.items(), in definition order, masses in units of 0.01: the
\* rows the cases need, two of them with the same reference mass.
MM_of_Elements ==
    << <<"H", 101>>, <<"Li", 694>>, <<"Cm", 24700>>, <<"Bk", 24700>> >>

Abs(x) == IF x < 0 THEN 0 - x ELSE x

\* math.isclose(a, b, abs_tol=tol): the relative tolerance 1e-09 is below
\* the unit for every mass of the table.
IsClose(a, b, tol) == Abs(a - b) <= tol

\* The inner loop for one mass: every row within tolerance is appended.
RECURSIVE AppendMatches(_, _, _)
AppendMatches(ns, mass, j) ==
    IF j > Len(MM_of_Elements) THEN ns
    ELSE AppendMatches(IF IsClose(mass, MM_of_Elements[j][2], MassTol)
                       THEN Append(ns, MM_of_Elements[j][1]) ELSE ns,
                       mass, j + 1)

MassFrame == UNCHANGED <<parser_vars, dedup_vars, ion_vars, cls_vars, asg_vars, masses>>

\* for mass in masses: one pass of the outer loop.
MassStep ==
    /\ m_pc = "loop"
    /\ m_i < Len(masses)
    /\ names' = AppendMatches(names, masses[m_i + 1], 1)
    /\ m_i' = m_i + 1
    /\ UNCHANGED m_pc
    /\ MassFrame

\* assert len(masses) == len(names) holds: return np.array(names).
MassReturn ==
    /\ m_pc = "loop"
    /\ m_i = Len(masses)
    /\ Len(masses) = Len(names)
    /\ m_pc' = "returned"
    /\ UNCHANGED <<names, m_i>>
    /\ MassFrame

\* assert len(masses) == len(names) fails: "Invalid mass found."
MassAssertFail ==
    /\ m_pc = "loop"
    /\ m_i = Len(masses)
    /\ Len(masses) # Len(names)
    /\ m_pc' = "AssertionError"
    /\ UNCHANGED <<names, m_i>>
    /\ MassFrame

\* Masses on a reference mass, at the edge of the tolerance, just outside
\* it, and on the reference mass two rows share.
MassValues == {101, 111, 112, 694, 24700}

MassInit ==
    /\ masses \in SeqsUpTo(MassValues, MaxMasses)
    /\ names = <<>>
    /\ m_i = 0
    /\ m_pc = "loop"
    /\ ParserIdle
    /\ DedupIdle
    /\ IonIdle
    /\ ClassifyIdle
    /\ AssignIdle

MassNext == MassStep \/ MassReturn \/ MassAssertFail

SpecMass == MassInit /\ [][MassNext]_vars

(* ====================== claims on mass_to_name ======================== *)
\* The rows of the table within 0.1 of a mass, by position.
MatchingRows(mass) ==
    {j \in 1..Len(MM_of_Elements) : Abs(mass - MM_of_Elements[j][2]) <= 10}

FirstRow(S) == CHOOSE j \in S : \A k \in S : j <= k

\* C4: whenever mass_to_name returns normally, the output is as long as the
\* input and output[i] is the first table entry, in definition order, within
\* 0.1 of masses[i], also when a mass is within 0.1 of two entries.
C4_FirstMatch ==
    m_pc = "returned" =>
        /\ Len(names) = Len(masses)
        /\ \A i \in 1..Len(masses) :
              /\ MatchingRows(masses[i]) # {}
              /\ names[i] = MM_of_Elements[FirstRow(MatchingRows(masses[i]))][1]

\* C5: mass_to_name fails for every input in which some mass has no table
\* entry within 0.1, however many entries the other masses match.
C5_FailsOnUnknownMass ==
    (m_pc \in {"returned", "AssertionError"}
        /\ \E i \in 1..Len(masses) : MatchingRows(masses[i]) = {})
        => m_pc = "AssertionError"

\* What the code guarantees: the output is as long as the input.
ReturnedSameLength == m_pc = "returned" => Len(names) = Len(masses)

(* --------------------- res_dict_from_select_dict ---------------------- *)
\* The atom types of the universe, and the keys of a SelectDict.
UTypes == {"Li", "P"}

SelectKeys == {"cation", "anion", "EC", "salt"}

\* The atoms of type t, as the set of their indices (an AtomGroup is sorted
\* and without duplicates).
AtomsOfType(t) == {i \in 1..Len(u_atoms) : u_atoms[i].type = t}

\* The atoms that share a residue with an atom of S.
SameResidAs(S) == {i \in 1..Len(u_atoms) : \E j \in S : u_atoms[j].resid = u_atoms[i].resid}

\* u.select_atoms(sel) for the selections the function builds and reads.
SelectAtoms(sel) ==
    IF \E t \in UTypes : sel = "type " \o t
    THEN AtomsOfType(CHOOSE t \in UTypes : sel = "type " \o t)
    ELSE IF \E t \in UTypes : sel = "same resid as (type " \o t \o ")"
    THEN SameResidAs(AtomsOfType(CHOOSE t \in UTypes : sel = "same resid as (type " \o t \o ")"))
    ELSE {}

\* res_select = "same resid as (" + val + ")"
ResSelect(val) == "same resid as (" \o val \o ")"

\* key in ["cation", "anion"] or res_group not in saved_select
KeepsEntry(key, res_group, saved) ==
    key \in {"cation", "anion"} \/ res_group \notin Range(saved)

\* The merge went through but the anion entry was left in.
SaltMergeKeepsAnion(d) ==
    IF /\ DictHas(d, "cation")
       /\ DictHas(d, "anion")
       /\ SelectAtoms(DictGet(d, "cation")) = SelectAtoms(DictGet(d, "anion"))
    THEN DictPut(DictPop(d, "cation"), "salt", DictGet(d, "cation"))
    ELSE d

\* if "cation" in res_dict and "anion" in res_dict and the two select the same
\* atoms: res_dict.pop("anion"); res_dict["salt"] = res_dict.pop("cation")
SaltMerge(d) ==
    IF /\ DictHas(d, "cation")
       /\ DictHas(d, "anion")
       /\ SelectAtoms(DictGet(d, "cation")) = SelectAtoms(DictGet(d, "anion"))
    THEN DictPut(DictPop(DictPop(d, "anion"), "cation"), "salt", DictGet(d, "cation"))
    ELSE d

DedupFrame == UNCHANGED <<parser_vars, mass_vars, ion_vars, cls_vars, asg_vars, u_atoms, select_dict>>

\* One pass of the loop whose entry is kept.
RsKeep ==
    /\ rs_pc = "loop"
    /\ rs_i < Len(select_dict)
    /\ LET key == select_dict[rs_i + 1][1]
           res_select == ResSelect(select_dict[rs_i + 1][2])
           res_group == SelectAtoms(res_select)
       IN /\ KeepsEntry(key, res_group, saved_select)
          /\ saved_select' = Append(saved_select, res_group)
          /\ rs_res_dict' = DictPut(rs_res_dict, key, res_select)
    /\ rs_i' = rs_i + 1
    /\ UNCHANGED rs_pc
    /\ DedupFrame

\* One pass of the loop whose entry selects residues already kept.
RsSkip ==
    /\ rs_pc = "loop"
    /\ rs_i < Len(select_dict)
    /\ LET key == select_dict[rs_i + 1][1]
           res_group == SelectAtoms(ResSelect(select_dict[rs_i + 1][2]))
       IN ~KeepsEntry(key, res_group, saved_select)
    /\ rs_i' = rs_i + 1
    /\ UNCHANGED <<saved_select, rs_res_dict, rs_pc>>
    /\ DedupFrame

\* After the loop: the salt merge, then return res_dict.
RsReturn ==
    /\ rs_pc = "loop"
    /\ rs_i = Len(select_dict)
    /\ rs_res_dict' = SaltMerge(rs_res_dict)
    /\ rs_pc' = "returned"
    /\ UNCHANGED <<rs_i, saved_select>>
    /\ DedupFrame

\* Residue ids are contiguous from 1 and never decrease along the atoms.
ResidsInOrder(as) ==
    /\ as[1].resid = 1
    /\ \A i \in 1..(Len(as) - 1) : as[i + 1].resid \in {as[i].resid, as[i].resid + 1}

UniverseSet ==
    {as \in [1..MaxUAtoms -> [resid : 1..MaxUAtoms, type : UTypes]] : ResidsInOrder(as)}

\* The dicts over some of the keys, in any insertion order.
RECURSIVE DictsOver(_, _)
DictsOver(keys, vals) ==
    {<<>>} \cup UNION {{<<<<k, v>>>> \o d : v \in vals, d \in DictsOver(keys \ {k}, vals)} : k \in keys}

DedupInit ==
    /\ u_atoms \in UniverseSet
    /\ select_dict \in DictsOver(SelectKeys, {"type " \o t : t \in UTypes})
    /\ rs_i = 0
    /\ saved_select = <<>>
    /\ rs_res_dict = <<>>
    /\ rs_pc = "loop"
    /\ ParserIdle
    /\ MassIdle
    /\ IonIdle
    /\ ClassifyIdle
    /\ AssignIdle

DedupNext == RsKeep \/ RsSkip \/ RsReturn

SpecDedup == DedupInit /\ [][DedupNext]_vars

(* ================ claims on res_dict_from_select_dict ================= *)
\* The residues that hold an atom of the type a "type T" selection names.
ResiduesOf(sel) ==
    {u_atoms[i].resid : i \in {j \in 1..Len(u_atoms) : "type " \o u_atoms[j].type = sel}}

BothIons == DictHas(select_dict, "cation") /\ DictHas(select_dict, "anion")

SameResidues == ResiduesOf(DictGet(select_dict, "cation")) = ResiduesOf(DictGet(select_dict, "anion"))

\* C7: for a SelectDict with both "cation" and "anion": if they expand to the
\* same residue set, the result has a "salt" entry with the cation's expanded
\* selection and neither "cation" nor "anion"; if the sets differ, the result
\* has both "cation" and "anion" and the merge creates no "salt" entry.
C7_SaltMerge ==
    (rs_pc = "returned" /\ BothIons) =>
        IF SameResidues
        THEN /\ <<"salt", "same resid as (" \o DictGet(select_dict, "cation") \o ")">>
                    \in Range(rs_res_dict)
             /\ DictCount(rs_res_dict, "salt") = 1
             /\ ~DictHas(rs_res_dict, "cation")
             /\ ~DictHas(rs_res_dict, "anion")
        ELSE /\ <<"cation", "same resid as (" \o DictGet(select_dict, "cation") \o ")">>
                    \in Range(rs_res_dict)
             /\ <<"anion", "same resid as (" \o DictGet(select_dict, "anion") \o ")">>
                    \in Range(rs_res_dict)
             /\ DictHas(rs_res_dict, "salt") =>
                    /\ DictHas(select_dict, "salt")
                    /\ DictGet(rs_res_dict, "salt")
                         = "same resid as (" \o DictGet(select_dict, "salt") \o ")"

\* A cation of type Li and an anion of type P that sit in the same residue
\* were merged into "salt".
C7_Witness ==
    /\ rs_pc = "returned"
    /\ BothIons
    /\ DictGet(select_dict, "cation") = "type Li"
    /\ DictGet(select_dict, "anion") = "type P"
    /\ ResiduesOf("type Li") = {1}
    /\ SameResidues
    /\ rs_res_dict = << <<"salt", "same resid as (type Li)">> >>

\* A cation and an anion whose residues differ were both kept.
DifferingIonsKept ==
    /\ rs_pc = "returned"
    /\ BothIons
    /\ ~SameResidues
    /\ DictHas(rs_res_dict, "cation")
    /\ DictHas(rs_res_dict, "anion")

(* ------------------------ extract_atom_from_ion ----------------------- *)
\* The atom types in the order np.unique sorts them.
TypeOrder == <<"1", "2", "3", "4", "5", "6", "7">>

TypeRank(t) == CHOOSE i \in 1..Len(TypeOrder) : TypeOrder[i] = t

\* np.argmax(charges) counted from 1, but the last atom attaining the maximum.
LastMax(atoms) ==
    CHOOSE i \in 1..Len(atoms) :
        /\ \A j \in 1..Len(atoms) : atoms[j].charge <= atoms[i].charge
        /\ \A j \in (i + 1)..Len(atoms) : atoms[j].charge < atoms[i].charge

\* np.argmax(ion.atoms.charges), counted from 1: the first atom attaining the maximum.
ArgMaxCharge(atoms) ==
    CHOOSE i \in 1..Len(atoms) :
        /\ \A j \in 1..Len(atoms) : atoms[j].charge <= atoms[i].charge
        /\ \A j \in 1..(i - 1) : atoms[j].charge < atoms[i].charge

\* np.argmin(ion.atoms.charges), counted from 1: the first atom attaining the minimum.
ArgMinCharge(atoms) ==
    CHOOSE i \in 1..Len(atoms) :
        /\ \A j \in 1..Len(atoms) : atoms[j].charge >= atoms[i].charge
        /\ \A j \in 1..(i - 1) : atoms[j].charge > atoms[i].charge

\* np.unique(ion.atoms.types, return_counts=True)[0]: the distinct types, sorted.
UniqueTypes(atoms) == SelectSeq(TypeOrder, LAMBDA t : \E i \in 1..Len(atoms) : atoms[i].type = t)

\* np.unique(ion.atoms.types, return_counts=True)[1]: the count of a type.
TypeCount(atoms, t) == Cardinality({i \in 1..Len(atoms) : atoms[i].type = t})

\* unique_types[0][np.argmin(unique_types[1])]: the first of the rarest types.
UniCenter(atoms) ==
    LET us == UniqueTypes(atoms)
        k == CHOOSE i \in 1..Len(us) :
                /\ \A j \in 1..Len(us) : TypeCount(atoms, us[j]) >= TypeCount(atoms, us[i])
                /\ \A j \in 1..(i - 1) : TypeCount(atoms, us[j]) > TypeCount(atoms, us[i])
    IN us[k]

\* "cation" if number == 0 else "cation_" + str(number), and the same for anions.
IonName(pos, n) ==
    (IF pos THEN "cation" ELSE "anion") \o (IF n = 0 THEN "" ELSE "_" \o Str(n))

\* The center's entry is written whether or not its type is the rarest one.
CenterWritesAlways(d, ion_name, center, uni_center) ==
    DictPut(DictPut(d, ion_name \o "_" \o center.name \o center.type, "type " \o center.type),
            ion_name, "type " \o uni_center)

\* if center.type == uni_center: one entry; else the center's entry, then the name's.
CenterWrites(d, ion_name, center, uni_center) ==
    IF center.type = uni_center
    THEN DictPut(d, ion_name, "type " \o uni_center)
    ELSE DictPut(DictPut(d, ion_name \o "_" \o center.name \o center.type,
                         "type " \o center.type),
                 ion_name, "type " \o uni_center)

\* extract_atom_from_ion(positive, ion, select_dict, number): the select_dict after the call.
ExtractIon(pos, atoms, d, n) ==
    IF Len(atoms) = 1
    THEN DictPut(d, IonName(pos, n), "type " \o atoms[1].type)
    ELSE CenterWrites(d, IonName(pos, n),
                      atoms[IF pos THEN ArgMaxCharge(atoms) ELSE ArgMinCharge(atoms)],
                      UniCenter(atoms))

\* extract_atom_from_molecule(resname, molecule, select_dict, number)
ExtractMolecule(resname, atoms, d, n) ==
    DictPut(d, IF n > 0 THEN resname \o "_" \o Str(n) ELSE resname,
            "type " \o atoms[ArgMinCharge(atoms)].type)

IonFrame == UNCHANGED <<parser_vars, mass_vars, dedup_vars, cls_vars, asg_vars, positive, ion, number>>

IonExtract ==
    /\ ion_pc = "call"
    /\ ion_dict' = ExtractIon(positive, ion, ion_dict, number)
    /\ ion_pc' = "done"
    /\ IonFrame

\* The atoms an ion is drawn from, and the serial numbers tried.
IonAtomSet == [name : {"C1", "N1"}, type : {"1", "2"}, charge : {-1, 0, 1}]

IonNumbers == {0, 1, 2}

IonInit ==
    /\ positive \in BOOLEAN
    /\ ion \in SeqsUpTo(IonAtomSet, MaxIonAtoms) \ {<<>>}
    /\ number \in IonNumbers
    /\ ion_dict = <<>>
    /\ ion_pc = "call"
    /\ ParserIdle
    /\ MassIdle
    /\ DedupIdle
    /\ ClassifyIdle
    /\ AssignIdle

IonNext == IonExtract

SpecIon == IonInit /\ [][IonNext]_vars

(* ================== claims on extract_atom_from_ion =================== *)
\* The ion's canonical name: "cation"/"anion", or "cation_N"/"anion_N" for N > 0.
CanonicalName ==
    CASE positive /\ number = 0 -> "cation"
      [] positive /\ number = 1 -> "cation_1"
      [] positive /\ number = 2 -> "cation_2"
      [] positive /\ number = 3 -> "cation_3"
      [] ~positive /\ number = 0 -> "anion"
      [] ~positive /\ number = 1 -> "anion_1"
      [] ~positive /\ number = 2 -> "anion_2"
      [] ~positive /\ number = 3 -> "anion_3"

TypesOfIon == {ion[i].type : i \in 1..Len(ion)}

\* C9: for an ion whose atoms all carry one type T (one atom or more, either
\* sign) extract_atom_from_ion adds exactly one entry, the canonical name
\* mapped to "type T", and no atom-specific key.
C9_SingleType ==
    (ion_pc = "done" /\ Cardinality(TypesOfIon) = 1) =>
        ion_dict = << <<CanonicalName, "type " \o ion[1].type>> >>

\* An anion numbered 2 with three atoms of type 2 has been extracted.
C9_Witness ==
    /\ ion_pc = "done"
    /\ ~positive
    /\ number = 2
    /\ Len(ion) = 3
    /\ TypesOfIon = {"2"}
    /\ ion_dict = << <<"anion_2", "type 2">> >>

\* The first atom, in iteration order, attaining the maximum (cation) or
\* minimum (anion) charge.
ExtremalAtom ==
    LET best(i) == \A j \in 1..Len(ion) :
                      IF positive THEN ion[j].charge <= ion[i].charge
                      ELSE ion[j].charge >= ion[i].charge
    IN ion[CHOOSE i \in 1..Len(ion) : best(i) /\ \A j \in 1..(i - 1) : ~best(j)]

AtomsOfIonType(t) == Cardinality({i \in 1..Len(ion) : ion[i].type = t})

\* The type with the smallest atom count, ties to the first in sorted order.
RarestType ==
    CHOOSE t \in TypesOfIon :
        \A t2 \in TypesOfIon :
            \/ AtomsOfIonType(t) < AtomsOfIonType(t2)
            \/ (AtomsOfIonType(t) = AtomsOfIonType(t2) /\ TypeRank(t) <= TypeRank(t2))

MultiTypeDone == ion_pc = "done" /\ Cardinality(TypesOfIon) >= 2

\* C10 as stated: for a multi-type ion the extremal atom is the first one
\* attaining the extremum and the unique type is the rarest one; equal types
\* give the one entry name -> "type T"; different types give two entries,
\* name_atomname_atomtype -> the extremal atom's type and name -> the unique type.
C10_KeyWithSeparators ==
    MultiTypeDone =>
        IF ExtremalAtom.type = RarestType
        THEN ion_dict = << <<CanonicalName, "type " \o RarestType>> >>
        ELSE /\ Len(ion_dict) = 2
             /\ <<CanonicalName \o "_" \o ExtremalAtom.name \o "_" \o ExtremalAtom.type,
                  "type " \o ExtremalAtom.type>> \in Range(ion_dict)
             /\ <<CanonicalName, "type " \o RarestType>> \in Range(ion_dict)

\* C10 as amended: the same, with the first key name + "_" + atomname + atomtype
\* (no separator between the atom's name and its type).
C10_KeyAsWritten ==
    MultiTypeDone =>
        IF ExtremalAtom.type = RarestType
        THEN ion_dict = << <<CanonicalName, "type " \o RarestType>> >>
        ELSE /\ Len(ion_dict) = 2
             /\ <<CanonicalName \o "_" \o ExtremalAtom.name \o ExtremalAtom.type,
                  "type " \o ExtremalAtom.type>> \in Range(ion_dict)
             /\ <<CanonicalName, "type " \o RarestType>> \in Range(ion_dict)

\* A cation whose two most charged atoms tie, the first of them of the more
\* frequent type: two entries were written, the first named after that atom.
C10_Witness ==
    /\ ion_pc = "done"
    /\ positive
    /\ number = 0
    /\ Len(ion) = 3
    /\ ion[1] = [name |-> "C1", type |-> "2", charge |-> 1]
    /\ ion[2] = [name |-> "N1", type |-> "1", charge |-> 1]
    /\ ion[3].type = "2"
    /\ ion_dict = << <<"cation_C12", "type 2">>, <<"cation", "type 1">> >>

(* ---------------------- select_dict_from_resname ---------------------- *)
\* Charges are in units of 1e-5 e: atol=1e-5 of np.isclose, and the 0.001 of
\* the fragment tests.
NeutralTol == 1

IonTol == 100

Atom(n, t, q) == [name |-> n, type |-> t, charge |-> q]

\* The fragments residues are built from: a one-atom cation, an anion of two
\* types whose most negative atom is not of its rarest type, a neutral
\* molecule, and a fragment whose charge is exactly 0.001.
FragLib ==
    { <<Atom("Li", "1", 100000)>>,
      <<Atom("P", "2", 50000), Atom("F", "3", -150000)>>,
      <<Atom("O", "6", -50000), Atom("C", "7", 50000)>>,
      <<Atom("H", "5", 100)>> }

\* A residue is the sequence of its fragments; its atoms are listed fragment
\* by fragment.
RECURSIVE Flatten(_)
Flatten(frags) == IF frags = <<>> THEN <<>> ELSE frags[1] \o Flatten(Tail(frags))

\* np.sum(frag.charges), and residue.charge over all atoms.
RECURSIVE SumCharges(_)
SumCharges(atoms) == IF atoms = <<>> THEN 0 ELSE atoms[1].charge + SumCharges(Tail(atoms))

\* np.isclose(residue.charge, 0, atol=1e-5)
IsNeutral(residue) == Abs(SumCharges(Flatten(residue))) <= NeutralTol

\* The two-fragment arm, but with the ions numbered like the molecules.
RECURSIVE ClassifyTwoNumbered(_, _, _, _)
ClassifyTwoNumbered(resname, frags, d, i) ==
    IF i >= Len(frags) THEN d
    ELSE LET frag == frags[i + 1]
             charge == SumCharges(frag)
             d2 == IF charge > IonTol THEN ExtractIon(TRUE, frag, d, i + 1)
                   ELSE IF charge < 0 - IonTol THEN ExtractIon(FALSE, frag, d, i + 1)
                   ELSE ExtractMolecule(resname, frag, d, i + 1)
         IN ClassifyTwoNumbered(resname, frags, d2, i + 1)

\* for i, frag in enumerate(residue.atoms.fragments), when there are two fragments.
RECURSIVE ClassifyTwo(_, _, _, _)
ClassifyTwo(resname, frags, d, i) ==
    IF i >= Len(frags) THEN d
    ELSE LET frag == frags[i + 1]
             charge == SumCharges(frag)
             d2 == IF charge > IonTol THEN ExtractIon(TRUE, frag, d, 0)
                   ELSE IF charge < 0 - IonTol THEN ExtractIon(FALSE, frag, d, 0)
                   ELSE ExtractMolecule(resname, frag, d, i + 1)
         IN ClassifyTwo(resname, frags, d2, i + 1)

\* The three-counter arm, but with every counter moved by every fragment.
RECURSIVE ClassifyManyShared(_, _, _, _, _, _, _)
ClassifyManyShared(resname, frags, d, k, cation_number, anion_number, molecule_number) ==
    IF k > Len(frags) THEN d
    ELSE LET frag == frags[k]
             charge == SumCharges(frag)
             d2 == IF charge > IonTol THEN ExtractIon(TRUE, frag, d, cation_number)
                   ELSE IF charge < 0 - IonTol THEN ExtractIon(FALSE, frag, d, anion_number)
                   ELSE ExtractMolecule(resname, frag, d, molecule_number)
         IN ClassifyManyShared(resname, frags, d2, k + 1,
                               cation_number + 1, anion_number + 1, molecule_number + 1)

\* for frag in residue.atoms.fragments, with the three counters, when there
\* are three fragments or more.
RECURSIVE ClassifyMany(_, _, _, _, _, _, _)
ClassifyMany(resname, frags, d, k, cation_number, anion_number, molecule_number) ==
    IF k > Len(frags) THEN d
    ELSE LET frag == frags[k]
             charge == SumCharges(frag)
         IN IF charge > IonTol
            THEN ClassifyMany(resname, frags, ExtractIon(TRUE, frag, d, cation_number),
                              k + 1, cation_number + 1, anion_number, molecule_number)
            ELSE IF charge < 0 - IonTol
            THEN ClassifyMany(resname, frags, ExtractIon(FALSE, frag, d, anion_number),
                              k + 1, cation_number, anion_number + 1, molecule_number)
            ELSE ClassifyMany(resname, frags, ExtractMolecule(resname, frag, d, molecule_number),
                              k + 1, cation_number, anion_number, molecule_number + 1)

\* The body of the loop for one non-empty resname and its first residue.
ClassifyResidue(resname, residue, d) ==
    IF IsNeutral(residue)
    THEN IF Len(residue) = 2 THEN ClassifyTwo(resname, residue, d, 0)
         ELSE IF Len(residue) >= 2 THEN ClassifyMany(resname, residue, d, 1, 1, 1, 1)
         ELSE ExtractMolecule(resname, Flatten(residue), d, 0)
    ELSE IF SumCharges(Flatten(residue)) > 0
    THEN ExtractIon(TRUE, Flatten(residue), d, 0)
    ELSE ExtractIon(FALSE, Flatten(residue), d, 0)

ClsFrame == UNCHANGED <<parser_vars, mass_vars, dedup_vars, ion_vars, asg_vars, c_resnames>>

\* if resname == "": continue
ClsSkipEmpty ==
    /\ c_pc = "loop"
    /\ c_i < Len(c_resnames)
    /\ c_resnames[c_i + 1] = ""
    /\ c_i' = c_i + 1
    /\ UNCHANGED <<c_residue, c_select_dict, c_pc>>
    /\ ClsFrame

\* Net-neutral residues of two cations and two anions, in every order.
TwoSalts ==
    LET ions == { <<Atom("Li", "1", 100000)>>,
                  <<Atom("P", "2", 50000), Atom("F", "3", -150000)>> }
    IN {r \in {<<a, b, c, d>> : a \in ions, b \in ions, c \in ions, d \in ions} :
           IsNeutral(r)}

\* The residues a resname's first residue is drawn from.
ResidueSet == (SeqsUpTo(FragLib, MaxFrags) \ {<<>>}) \cup TwoSalts

\* One pass of the loop: residue = u.select_atoms("resname " + resname).residues[0]
ClsResidue ==
    /\ c_pc = "loop"
    /\ c_i < Len(c_resnames)
    /\ c_resnames[c_i + 1] # ""
    /\ \E residue \in ResidueSet :
          /\ c_residue' = residue
          /\ c_select_dict' = ClassifyResidue(c_resnames[c_i + 1], residue, c_select_dict)
    /\ c_i' = c_i + 1
    /\ UNCHANGED c_pc
    /\ ClsFrame

ClsReturn ==
    /\ c_pc = "loop"
    /\ c_i = Len(c_resnames)
    /\ c_pc' = "returned"
    /\ UNCHANGED <<c_i, c_residue, c_select_dict>>
    /\ ClsFrame

\* The resnames, in the order np.unique sorts them.
ResnameOrder == <<"", "EC", "LiPF6">>

ClassifyInit ==
    /\ c_resnames \in {SelectSeq(ResnameOrder, LAMBDA r : r \in S) :
                          S \in (SUBSET Range(ResnameOrder)) \ {{}}}
    /\ c_i = 0
    /\ c_residue = <<>>
    /\ c_select_dict = <<>>
    /\ c_pc = "loop"
    /\ ParserIdle
    /\ MassIdle
    /\ DedupIdle
    /\ IonIdle
    /\ AssignIdle

ClassifyNext == ClsSkipEmpty \/ ClsResidue \/ ClsReturn

SpecClassify == ClassifyInit /\ [][ClassifyNext]_vars

(* ---------------------------- assign_resname -------------------------- *)
\* u.select_atoms(val).residues for val = "resid A-B" on a universe of n
\* residues: the residues numbered A to B.
ResidsOfSelection(val, n) ==
    {r \in 1..n : \E a \in 1..(n + 1), b \in 0..n :
                     val = ResidRange(a, b + 1) /\ a <= r /\ r <= b}

\* u.add_TopologyAttr("resname"): the attribute exists afterwards, a residue
\* that had no name has the empty one, and a name already set is kept.
AddResnameAttr(resnames, n) == IF resnames = <<>> THEN [r \in 1..n |-> ""] ELSE resnames

\* The write of one entry, but on every selected residue, named or not.
AssignNamesAll(resnames, sel, key) ==
    [r \in 1..Len(resnames) |-> IF r \in sel THEN key ELSE resnames[r]]

\* res_names[res_names == ""] = key; res_group.residues.resnames = res_names
AssignNames(resnames, sel, key) ==
    [r \in 1..Len(resnames) |-> IF r \in sel /\ resnames[r] = "" THEN key ELSE resnames[r]]

\* The strings np.unique(u.residues.resnames) can hold, in its sorted order.
SortedNames == <<"", "EC", "LiPF6", "old">>

\* np.unique(u.residues.resnames)
UniqueResnames(resnames) == SelectSeq(SortedNames, LAMBDA r : r \in Range(resnames))

\* u.select_atoms("resname " + resname).residues[0]: the first residue so named.
FirstResidue(resname, resnames) ==
    CHOOSE r \in 1..Len(resnames) :
        resnames[r] = resname /\ \A q \in 1..(r - 1) : resnames[q] # resname

\* select_dict_from_resname(u): the loop over the sorted resnames of u.
RECURSIVE ClassifyAll(_, _, _, _)
ClassifyAll(uniq, resnames, residues, d) ==
    IF uniq = <<>> THEN d
    ELSE IF Head(uniq) = "" THEN ClassifyAll(Tail(uniq), resnames, residues, d)
    ELSE ClassifyAll(Tail(uniq), resnames, residues,
                     ClassifyResidue(Head(uniq),
                                     residues[FirstResidue(Head(uniq), resnames)], d))

AsgFrame ==
    UNCHANGED <<parser_vars, mass_vars, dedup_vars, ion_vars, cls_vars,
                a_residues, a_names0, a_res_dict>>

\* u.add_TopologyAttr("resname")
AsgAddAttr ==
    /\ a_pc = "attr"
    /\ a_names' = AddResnameAttr(a_names, Len(a_residues))
    /\ a_pc' = "loop"
    /\ UNCHANGED <<a_i, a_select_dict, a_runs>>
    /\ AsgFrame

\* One pass of the loop over res_dict.items().
AsgEntry ==
    /\ a_pc = "loop"
    /\ a_i < Len(a_res_dict)
    /\ a_names' = AssignNames(a_names,
                              ResidsOfSelection(a_res_dict[a_i + 1][2], Len(a_residues)),
                              a_res_dict[a_i + 1][1])
    /\ a_i' = a_i + 1
    /\ UNCHANGED <<a_pc, a_select_dict, a_runs>>
    /\ AsgFrame

AsgReturn ==
    /\ a_pc = "loop"
    /\ a_i = Len(a_res_dict)
    /\ a_pc' = "returned"
    /\ UNCHANGED <<a_names, a_i, a_select_dict, a_runs>>
    /\ AsgFrame

\* select_dict_from_resname(u) on the universe assign_resname has annotated:
\* it reads the resnames and the residues and writes neither.
AsgClassify ==
    /\ a_pc = "returned"
    /\ a_runs < MaxRuns
    /\ a_select_dict' = ClassifyAll(UniqueResnames(a_names), a_names, a_residues, <<>>)
    /\ a_runs' = a_runs + 1
    /\ UNCHANGED <<a_names, a_i, a_pc>>
    /\ AsgFrame

\* The universe of n residues: lone cations and neutral molecules in turn.
AsgResidues(n) ==
    [r \in 1..n |-> IF r % 2 = 1
                    THEN << <<Atom("Li", "1", 100000)>> >>
                    ELSE << <<Atom("O", "6", -50000), Atom("C", "7", 50000)>> >>]

\* The resnames a residue can carry at the call, and the keys of res_dict.
PresetNames == {"", "old"}

AsgKeys == {"", "EC", "LiPF6"}

\* The selections "resid A-B" over n residues, and "resid 1-0", which selects
\* nothing.
AsgSelections(n) ==
    {ResidRange(p[1], p[2] + 1) :
        p \in {q \in (1..n) \X (0..n) : q[2] >= q[1] \/ q = <<1, 0>>}}

\* The res_dicts of at most MaxEntries entries with distinct keys.
AsgDicts(n) ==
    {d \in SeqsUpTo(AsgKeys \X AsgSelections(n), MaxEntries) :
        \A i, j \in 1..Len(d) : i # j => d[i][1] # d[j][1]}

AssignInit ==
    /\ a_residues \in {AsgResidues(n) : n \in 1..MaxResidues}
    /\ a_names0 \in {<<>>} \cup [1..Len(a_residues) -> PresetNames]
    /\ a_res_dict \in AsgDicts(Len(a_residues))
    /\ a_names = a_names0
    /\ a_i = 0
    /\ a_pc = "attr"
    /\ a_select_dict = <<>>
    /\ a_runs = 0
    /\ ParserIdle
    /\ MassIdle
    /\ DedupIdle
    /\ IonIdle
    /\ ClassifyIdle

AssignNext == AsgAddAttr \/ AsgEntry \/ AsgReturn \/ AsgClassify

SpecAssign == AssignInit /\ [][AssignNext]_vars

(* --------------------------- the whole module ------------------------- *)
\* One of the functions is applied to one input.
Init == ParserInit \/ MassInit \/ DedupInit \/ IonInit \/ ClassifyInit \/ AssignInit

Next == ParserNext \/ MassNext \/ DedupNext \/ IonNext \/ ClassifyNext \/ AssignNext

Spec == Init /\ [][Next]_vars

(* ================= claims on select_dict_from_resname ================= *)
\* The topology has exactly one non-empty resname.
OnlyResname == Cardinality(Range(c_resnames) \ {""}) = 1

TheResname == CHOOSE r \in Range(c_resnames) : r # ""

NetCharge(atoms) == IF atoms = <<>> THEN 0 ELSE SumCharges(atoms)

\* The residue is net-neutral with two fragments of charge +1 and -1, in
\* either order.
IonPair ==
    /\ Len(c_residue) = 2
    /\ {NetCharge(c_residue[1]), NetCharge(c_residue[2])} = {100000, 0 - 100000}

\* The residue is net-neutral with one fragment.
NeutralMolecule ==
    /\ Len(c_residue) = 1
    /\ NetCharge(c_residue[1]) \in {-1, 0, 1}

\* C8: on a topology whose only resname belongs to a net-neutral residue of
\* two fragments of charge +1 and -1, in either order, the SelectDict has
\* exactly one entry keyed "cation" and exactly one keyed "anion"; on a
\* net-neutral one-fragment residue it has exactly one entry, keyed by the
\* resname without a numeric suffix.
C8_IonPairAndMolecule ==
    (c_pc = "returned" /\ OnlyResname) =>
        /\ IonPair =>
              /\ DictCount(c_select_dict, "cation") = 1
              /\ DictCount(c_select_dict, "anion") = 1
        /\ NeutralMolecule =>
              /\ Len(c_select_dict) = 1
              /\ c_select_dict[1][1] = TheResname

\* The anion fragment comes first and the cation second: both bare keys are there.
C8_Witness ==
    /\ c_pc = "returned"
    /\ c_resnames = <<"LiPF6">>
    /\ c_residue = << <<Atom("P", "2", 50000), Atom("F", "3", -150000)>>,
                      <<Atom("Li", "1", 100000)>> >>
    /\ DictHas(c_select_dict, "cation")
    /\ DictHas(c_select_dict, "anion")

\* A one-fragment neutral molecule gave one entry under its resname.
NeutralMoleculeClassified ==
    /\ c_pc = "returned"
    /\ c_resnames = <<"EC">>
    /\ NeutralMolecule
    /\ c_select_dict = << <<"EC", "type 6">> >>

(* ===================== claims on assign_resname ======================= *)
\* The resname residue r carried at the call ("" without the attribute).
NameAtCall(r) == IF a_names0 = <<>> THEN "" ELSE a_names0[r]

\* The entries of res_dict, by position, whose selection contains residue r.
EntriesSelecting(r) ==
    {i \in 1..Len(a_res_dict) :
        r \in ResidsOfSelection(a_res_dict[i][2], Len(a_residues))}

FirstOf(S) == CHOOSE i \in S : \A j \in S : i <= j

\* A name that is set is never changed by a step of the loop.
WriteOnce ==
    \A r \in 1..Len(a_names) : a_names[r] # "" => a_names'[r] = a_names[r]

\* Once assign_resname has returned, classification changes no resname.
ClassifyKeeps == a_pc = "returned" => a_names' = a_names

\* Each residue ends with its name at the call if it had one, else with the
\* key of the first entry selecting it, else unchanged.
EndsWithFirstKey ==
    a_pc = "returned" =>
        \A r \in 1..Len(a_residues) :
            a_names[r] = IF NameAtCall(r) # "" \/ EntriesSelecting(r) = {}
                         THEN NameAtCall(r)
                         ELSE a_res_dict[FirstOf(EntriesSelecting(r))][1]

\* The same, with the first entry selecting it whose key is not empty.
EndsWithFirstNonEmptyKey ==
    a_pc = "returned" =>
        \A r \in 1..Len(a_residues) :
            LET named == {i \in EntriesSelecting(r) : a_res_dict[i][1] # ""}
            IN a_names[r] = IF NameAtCall(r) # "" \/ named = {}
                            THEN NameAtCall(r)
                            ELSE a_res_dict[FirstOf(named)][1]

EmptyKeySkipped ==
    /\ a_pc = "returned"
    /\ a_names0 = <<"">>
    /\ a_res_dict = << <<"", "resid 1-1">>, <<"EC", "resid 1-1">> >>
    /\ a_names = <<"EC">>

(* ============ claims on the keys select_dict_from_resname writes ====== *)
\* The keys one pass of the loop writes for a resname and its first residue.
KeysOfPass(resname, residue) == DictKeys(ClassifyResidue(resname, residue, <<>>))

\* A pass of the loop over a non-empty resname.
ClsPass == c_pc = "loop" /\ c_i' = c_i + 1 /\ c_resnames[c_i + 1] # ""

\* C12: during one invocation of select_dict_from_resname over distinct
\* non-empty resnames no key is written more than once: the keys a pass
\* writes for its resname are none of the keys earlier passes wrote, so the
\* pass leaves the resname at least one entry of its own.
C12_NoKeyWrittenTwice ==
    [][ClsPass =>
          /\ DictKeys(c_select_dict) \cap KeysOfPass(c_resnames[c_i + 1], c_residue') = {}
          /\ Len(c_select_dict') > Len(c_select_dict)]_vars

\* Two resnames whose first residues are both a lone cation: the second pass
\* wrote "cation" again, and the result holds one entry for the two resnames.
CationWrittenTwice ==
    /\ c_pc = "returned"
    /\ c_resnames = <<"EC", "LiPF6">>
    /\ c_residue = << <<Atom("Li", "1", 100000)>> >>
    /\ c_select_dict = << <<"cation", "type 1">> >>

(* ============ claims on the residues of three fragments or more ======= *)
\* The role the charge of a fragment gives it.
Role(frag) ==
    IF SumCharges(frag) > IonTol THEN "cation"
    ELSE IF SumCharges(frag) < 0 - IonTol THEN "anion"
    ELSE "molecule"

\* j-th fragment: how many of the first j fragments have its role.
RankInRole(frags, j) == Cardinality({i \in 1..j : Role(frags[i]) = Role(frags[j])})

\* The name the j-th fragment is extracted under: cation_k, anion_k or <resname>_k.
RoleKey(resname, frags, j) ==
    (CASE Role(frags[j]) = "cation" -> "cation"
       [] Role(frags[j]) = "anion" -> "anion"
       [] OTHER -> resname) \o "_" \o Str(RankInRole(frags, j))

\* The dictionary after the first j fragments were each extracted once, under
\* its role and its rank in that role.
RECURSIVE ExtractedByRank(_, _, _, _)
ExtractedByRank(resname, frags, d, j) ==
    IF j = 0 THEN d
    ELSE LET before == ExtractedByRank(resname, frags, d, j - 1)
             k == RankInRole(frags, j)
         IN CASE Role(frags[j]) = "cation" -> ExtractIon(TRUE, frags[j], before, k)
              [] Role(frags[j]) = "anion" -> ExtractIon(FALSE, frags[j], before, k)
              [] OTHER -> ExtractMolecule(resname, frags[j], before, k)

\* C13: for a net-neutral residue of three fragments or more the fragments
\* are walked in order with three counters starting at 1: the k-th fragment
\* of charge > 0.001 is extracted under cation_k, the k-th of charge < -0.001
\* under anion_k, the k-th remaining one under <resname>_k; a counter moves
\* only on fragments of its role and every fragment is extracted under
\* exactly one role.
C13_ThreeCounters ==
    [][(ClsPass /\ IsNeutral(c_residue') /\ Len(c_residue') >= 3) =>
          /\ c_select_dict' = ExtractedByRank(c_resnames[c_i + 1], c_residue',
                                              c_select_dict, Len(c_residue'))
          /\ \A j \in 1..Len(c_residue') :
                DictHas(c_select_dict', RoleKey(c_resnames[c_i + 1], c_residue', j))]_vars

\* A residue of two cations and two anions, interleaved: the second cation
\* and the second anion were numbered 2.
C13_Witness ==
    /\ c_pc = "returned"
    /\ c_resnames = <<"LiPF6">>
    /\ c_residue = << <<Atom("Li", "1", 100000)>>,
                      <<Atom("P", "2", 50000), Atom("F", "3", -150000)>>,
                      <<Atom("Li", "1", 100000)>>,
                      <<Atom("P", "2", 50000), Atom("F", "3", -150000)>> >>
    /\ c_select_dict = << <<"cation_1", "type 1">>,
                          <<"anion_1_F3", "type 3">>, <<"anion_1", "type 2">>,
                          <<"cation_2", "type 1">>,
                          <<"anion_2_F3", "type 3">>, <<"anion_2", "type 2">> >>

\* Three neutral molecules and nothing else: the molecule counter ran to 3.
ThreeMolecules ==
    /\ c_pc = "returned"
    /\ c_resnames = <<"EC">>
    /\ Len(c_residue) = 3
    /\ DictKeys(c_select_dict) = {"EC_1", "EC_2", "EC_3"}

====
